---- MODULE Spec2Model ----
(***************************************************************************)
(* Model of the OAuth authorization flow of the Google Meet MCP server:    *)
(* AuthServer (src/src/AuthServer.js): hasValidTokens, loadCredentials,    *)
(* saveTokens, the HTTP request handler of createServer,                   *)
(* findAvailablePort, start and stop.                                       *)
(*                                                                         *)
(* Every `await` of the source is a point where other callbacks of the     *)
(* event loop may run, so each action below is one run-to-completion       *)
(* segment of a handler.  The outcome of a call to the outside world (the  *)
(* token endpoint, the file system, the browser launcher, bind) is an      *)
(* input chosen with \E.                                                    *)
(***************************************************************************)
EXTENDS Integers, FiniteSets, Sequences, TLC

\* ---------------------------------------------------------------- bounds
\* callbacks carrying a code that one flow handles
MaxRequests == 2
\* client connections that can be open on the listener
MaxSockets == 1
\* largest expiry_date / clock value
MaxExpiry == 3
\* tool calls the MCP client sends in one run
MaxCalls == 1
\* the instants of the calendar are 0..MaxTime
MaxTime == 4
\* events one listing of a calendar holds for checkTimeConflicts
MaxEvents == 1
\* the largest maxResults a caller of listMeetings passes
MaxResults == 2
\* calls of stop() made on one AuthServer
MaxStops == 3

\* ------------------------------------------------------- program constants
\* findAvailablePort(startPort = 3000, endPort = 3010)
StartPort == 3000
EndPort == 3010
Ports == StartPort..EndPort

\* the value Date.now() returns while the token file is examined
Now == 2

\* a property that is not present in a parsed JSON object (undefined)
Absent == -1
\* token strings: one already in the token file, one returned by a refresh,
\* one issued for the code of callback r
StoredToken == 1
RefreshedToken == 2
IssuedToken(r) == 2 + r

\* JavaScript truthiness of a property value: undefined and 0 are falsy
Truthy(v) == v # Absent /\ v # 0

VARIABLES
  credFile,                   \* content of the file at credentialsPath
  tokenFile,                  \* content of the file at tokenPath
  occupied,                   \* ports some other process holds
  pc,                         \* position of start()
  result,                     \* what start() gave its caller
  hadValidTokens,             \* hasValidTokens() answered true in start()
  browser,                    \* openBrowser argument and outcome of open()
  port,                       \* loop variable of findAvailablePort
  server,                     \* this.server: 0 (null) or the bound port
  listening,                  \* the listener accepts connections
  oAuth2Client,               \* this.oAuth2Client: 0 (null) or redirect port
  authCompletedSuccessfully,  \* this.authCompletedSuccessfully
  checkInterval,              \* the 1 s setInterval is active
  timeoutTimer,               \* the 300 s setTimeout
  reqs,                       \* callbacks with a code, by arrival number
  lastResp,                   \* request and status of the last response
  activeConnections,          \* this.activeConnections
  stopPc,                     \* position of cleanup()/stop()
  sockets,                    \* the listener's sockets: free (no such
                              \* socket), open, closed by the peer or
                              \* destroyed, the last two until 'close'
  stops,                      \* positions of the calls of stop()
  run,                        \* position of run() of the MCP server
  authCalls,                  \* positions of initializeAuthentication()
  isAuthenticated,            \* this.isAuthenticated
  googleMeet,                 \* this.googleMeet and its calendar client
  authServers,                \* AuthServer instances constructed so far
  tools,                      \* the tool calls in handleCallTool
  gw                          \* the GoogleMeetAPI method under way

\* the sockets the listener accepted and the promises stop() returned
stopSide == <<sockets, stops>>

\* the MCP server's own fields and positions
srvVars == <<run, authCalls, isAuthenticated, googleMeet, authServers>>

\* everything outside the AuthServer instance and the files it touches
serverSide == <<srvVars, tools, gw>>

vars == <<credFile, tokenFile, occupied, pc, result, hadValidTokens, browser,
          port, server, listening, oAuth2Client, authCompletedSuccessfully,
          checkInterval, timeoutTimer, reqs, lastResp, activeConnections,
          stopPc, sockets, stops, run, authCalls, isAuthenticated, googleMeet, authServers,
          tools, gw>>

\* ------------------------------------------------------------ token file
MissingFile ==
  [state |-> "missing", access_token |-> Absent, refresh_token |-> Absent,
   expiry_date |-> Absent]
MalformedFile ==
  [state |-> "malformed", access_token |-> Absent, refresh_token |-> Absent,
   expiry_date |-> Absent]
Bundle(a, r, e) ==
  [state |-> "ok", access_token |-> a, refresh_token |-> r, expiry_date |-> e]

Bundles ==
  { Bundle(a, r, e) : a \in {Absent, StoredToken}, r \in {Absent, StoredToken},
                      e \in {Absent} \cup 0..MaxExpiry }
TokenFiles == {MissingFile, MalformedFile} \cup Bundles

\* ------------------------------------------------------ credentials file
CredFiles == {"unreadable", "web", "installed", "neither"}

\* loadCredentials without the final `else throw`
loadCredentialsAnyShape(cred) ==
  IF cred = "unreadable" THEN [ok |-> FALSE, config |-> "none"]
  ELSE IF cred = "web" THEN [ok |-> TRUE, config |-> "web"]
  ELSE [ok |-> TRUE, config |-> "installed"]

\* loadCredentials: the client configuration, or a thrown Error
loadCredentials(cred) ==
  IF cred = "unreadable" THEN [ok |-> FALSE, config |-> "none"]
  ELSE IF cred = "web" THEN [ok |-> TRUE, config |-> "web"]
  ELSE IF cred = "installed" THEN [ok |-> TRUE, config |-> "installed"]
  ELSE [ok |-> FALSE, config |-> "none"]

\* saveTokens: the file after the call, given whether mkdir/writeFile worked
saveTokens(file, tokens, writeOk) ==
  IF writeOk THEN [ok |-> TRUE, file |-> tokens]
  ELSE [ok |-> FALSE, file |-> file]

\* tokens.expiry_date && tokens.expiry_date < Date.now()
IsExpired(tokens) ==
  Truthy(tokens.expiry_date) /\ tokens.expiry_date < Now

\* a refresh whose bundle keeps the expiry date of the old one
RefreshedBundleOldExpiry(tokens) ==
  Bundle(RefreshedToken, tokens.refresh_token, tokens.expiry_date)

\* the bundle a successful refresh yields: a new access token, the same
\* refresh token, an expiry date in the future
RefreshedBundle(tokens) ==
  Bundle(RefreshedToken, tokens.refresh_token, MaxExpiry)

\* hasValidTokens: the answer and the token file it leaves behind;
\* refreshOk and writeOk are the outcomes of the token endpoint and of the
\* write, consulted only on the refresh branch
hasValidTokens(file, cred, refreshOk, writeOk) ==
  IF file.state # "ok" THEN [valid |-> FALSE, file |-> file]
  ELSE IF ~Truthy(file.access_token) \/ ~Truthy(file.refresh_token)
    THEN [valid |-> FALSE, file |-> file]
  ELSE IF IsExpired(file)
    THEN IF loadCredentials(cred).ok /\ refreshOk
           THEN LET s == saveTokens(file, RefreshedBundle(file), writeOk)
                IN  [valid |-> s.ok, file |-> s.file]
           ELSE [valid |-> FALSE, file |-> file]
  ELSE [valid |-> TRUE, file |-> file]

\* -------------------------------------------------- callbacks with a code
ReqIds == 1..MaxRequests
StopIds == 1..MaxStops
Sockets == 1..MaxSockets

\* the token bundle oAuth2Client.getToken(code) yields for callback r
IssuedBundle(r) == Bundle(IssuedToken(r), IssuedToken(r), MaxExpiry)

\* requests a client can send: path, and whether the query carries
\* `error` and `code`
Requests ==
  { [path |-> "/", error |-> FALSE, code |-> FALSE],
    [path |-> "/other", error |-> FALSE, code |-> FALSE] }
  \cup { [path |-> "/oauth2callback", error |-> e, code |-> c] :
           e \in BOOLEAN, c \in BOOLEAN }
NoRequest == [path |-> "", error |-> FALSE, code |-> FALSE]
NoResp == [req |-> NoRequest, status |-> 0]

\* a callback whose handler called getToken: its request, the position of
\* the handler, the status it answered with, and what it did (wrote: its
\* tokens are in the token file; setFlag: it set the success flag; early:
\* it did so before the 300 s timer fired; retry: it arrived after a
\* callback without a code had been answered)
NoReq ==
  [req |-> NoRequest, pc |-> "unused", wrote |-> FALSE, setFlag |-> FALSE,
   status |-> 0, early |-> FALSE, retry |-> FALSE]

\* a handler that looks at `code` before it looks at `error`
RouteCodeBeforeError(req) ==
  IF req.path = "/" THEN "root"
  ELSE IF req.path = "/oauth2callback"
    THEN IF req.code THEN "exchange"
         ELSE IF req.error THEN "error"
         ELSE "nocode"
  ELSE "notfound"

\* a handler without the test for a missing code
RouteWithoutCodeTest(req) ==
  IF req.path = "/" THEN "root"
  ELSE IF req.path = "/oauth2callback"
    THEN IF req.error THEN "error"
         ELSE "exchange"
  ELSE "notfound"

\* the branch of the request handler a request takes
Route(req) ==
  IF req.path = "/" THEN "root"
  ELSE IF req.path = "/oauth2callback"
    THEN IF req.error THEN "error"
         ELSE IF ~req.code THEN "nocode"
         ELSE "exchange"
  ELSE "notfound"

\* status written by the branches that answer at once
Status(branch) ==
  IF branch = "root" THEN 200
  ELSE IF branch = "notfound" THEN 404
  ELSE 400

\* start() without its try/catch: the exception reaches the caller
StartCatchRethrows == "threw"

\* the value the catch block of start() returns
StartCatch == "false"

\* the value the catch block of the callback leaves in the success flag
CallbackCatchFlag(flag) == FALSE

\* a poll tick that resolves without looking at the flag
PollObservesAnything(flag) == TRUE

\* the poll tick's test of the success flag
PollObserves(flag) == flag

Alive == stopPc # "exited" /\ run # "exited"

\* resolve(v) of the wait promise: the first call settles it
Resolve(v) ==
  /\ result' = IF result = "none" THEN v ELSE result
  /\ pc' = IF result = "none" THEN "returned" ELSE pc

\* ------------------------------------------------- GoogleMeetAPI.initialize
\* initialize(): the credentials must be readable and of the web or the
\* installed shape; the token file must parse; an expired bundle is
\* refreshed and written back; any failure throws. No field of the bundle
\* is required to be present.
initialize(cred, file, refreshOk, writeOk) ==
  IF cred \notin {"web", "installed"}
    THEN [ok |-> FALSE, file |-> file]
  ELSE IF file.state # "ok"
    THEN [ok |-> FALSE, file |-> file]
  ELSE IF IsExpired(file)
    THEN IF refreshOk /\ writeOk
           THEN [ok |-> TRUE, file |-> RefreshedBundle(file)]
           ELSE [ok |-> FALSE, file |-> file]
  ELSE [ok |-> TRUE, file |-> file]

\* ------------------------------------------------------------ tool calls
ToolIds == 1..MaxCalls

\* the callers of initializeAuthentication: run() is 0, a tool call its id
Callers == {0} \cup ToolIds

ToolNames ==
  {"list_meetings", "get_meeting", "create_meeting", "update_meeting",
   "delete_meeting", "check_availability"}

\* request.params.arguments left out by the client
Undefined == [undefined |-> TRUE]

\* no error thrown, no result returned yet
NoOut == [type |-> "none", code |-> "none", message |-> <<>>]

\* a tool call that has not arrived; calls are the GoogleMeetAPI calls the
\* handler made so far and answers how each of them ended
NoCall ==
  [pc |-> "none", name |-> "none", args |-> Undefined, calls |-> <<>>,
   answers |-> <<>>, invoked |-> FALSE, auth |-> FALSE, client |-> "null",
   written |-> <<>>, warned |-> FALSE, out |-> NoOut]

\* no GoogleMeetAPI method under way
NoGw == [op |-> "none"]

\* the MCP server is not part of the run: an AuthServer on its own
ServerOff ==
  /\ run = "off"
  /\ authCalls = [c \in Callers |-> "none"]
  /\ isAuthenticated = FALSE
  /\ googleMeet = "null"
  /\ authServers = 1
  /\ tools = [t \in ToolIds |-> NoCall]
  /\ gw = NoGw

\* ------------------------------------------------ arguments of tool calls
\* an arguments object maps the keys the client sent to their values:
\* 0 is a falsy value (an empty string, false), anything else is truthy
Has(args, k) == k \in DOMAIN args
TruthyArg(args, k) == Has(args, k) /\ Truthy(args[k])

\* every arguments object over some of the keys, with the given values
ArgsOver(keys, values) == UNION { [K -> values] : K \in SUBSET keys }

\* the keys updateMeeting destructures and the keys update_meeting declares
ApiUpdateKeys == {"summary", "description", "startTime", "endTime",
                  "attendees"}
ToolUpdateKeys == {"summary", "description", "start_time", "end_time",
                   "attendees"}

\* the arguments objects a client sends with each tool
ArgSpace(name) ==
  CASE name = "list_meetings" -> ArgsOver({"max_results"}, {1})
    [] name \in {"get_meeting", "delete_meeting"} ->
         ArgsOver({"meeting_id"}, {0, 1})
    [] name = "create_meeting" ->
         { a @@ c : a \in ArgsOver({"summary", "start_time", "end_time"}, {1}),
                    c \in ArgsOver({"check_conflicts"}, {0, 1}) }
    [] name = "update_meeting" ->
         { m @@ u : m \in ArgsOver({"meeting_id"}, {0, 1}),
                    u \in ArgsOver(ApiUpdateKeys \cup ToolUpdateKeys, {1}) }
    [] name = "check_availability" ->
         { a @@ c : a \in ArgsOver({"start_time", "end_time"}, {1}),
                    c \in ArgsOver({"calendars"}, {1, 2}) }
    [] OTHER -> {<<>>}

\* the requests of the CallTool handler
ToolRequests ==
  { [name |-> n, args |-> a] :
      n \in ToolNames \cup {"unknown_tool"}, a \in {Undefined} }
  \cup UNION { { [name |-> n, args |-> a] : a \in ArgSpace(n) } :
               n \in ToolNames \cup {"unknown_tool"} }

\* the parameters each handler tests with `!x` before its try block
Required(name) ==
  CASE name \in {"get_meeting", "update_meeting", "delete_meeting"} ->
         {"meeting_id"}
    [] name = "create_meeting" -> {"summary", "start_time", "end_time"}
    [] name = "check_availability" -> {"start_time", "end_time"}
    [] OTHER -> {}

\* ---------------------------------------------------------------- errors
\* a message is the sequence of the pieces it was concatenated from
Includes(message, word) == \E i \in 1..Len(message) : message[i] = word

McpError(code, message) ==
  [type |-> "McpError", code |-> code, message |-> message]

\* the messages a failing Calendar API call carries
ProviderMessages ==
  { <<"quota exceeded">>, <<"invalid ", "credentials">>,
    <<"expired ", "token">> }

\* the hint block appended for a message that includes the word
Hint(word) == "hint: " \o word

\* the catch block of handleCallTool: an McpError is rethrown as it is,
\* anything else becomes an InternalError whose message gets the hint block
\* of the first word it includes
CatchToolError(error) ==
  IF error.type = "McpError"
    THEN error
    ELSE McpError("InternalError",
                  <<"tool failed: ">> \o error.message \o
                  (IF Includes(error.message, "credentials")
                     THEN <<Hint("credentials")>>
                   ELSE IF Includes(error.message, "token")
                     THEN <<Hint("token")>>
                   ELSE <<>>))

\* the catch blocks of a GoogleMeetAPI method and of its handler, one
\* inside the other: each wraps the message it caught
GatewayError(message) ==
  McpError("InternalError", <<"handler: ", "gateway: ">> \o message)

\* ---------------------------------------------------------- updateMeeting
\* the event events.get returns: every field holds its old value 0
ExistingEvent ==
  [summary |-> 0, description |-> 0,
   start |-> [dateTime |-> 0, timeZone |-> "local"],
   end |-> [dateTime |-> 0, timeZone |-> "local"],
   attendees |-> [emails |-> 0], conferenceData |-> TRUE]

\* an update that sends only the supplied fields and drops the others
updatesReplacingEvent(existing, fields) ==
  [summary |-> IF Has(fields, "summary") THEN fields["summary"] ELSE Absent,
   description |->
     IF Has(fields, "description") THEN fields["description"] ELSE Absent,
   start |-> IF Has(fields, "startTime")
               THEN [dateTime |-> fields["startTime"], timeZone |-> "UTC"]
               ELSE [dateTime |-> Absent, timeZone |-> "UTC"],
   end |-> IF Has(fields, "endTime")
             THEN [dateTime |-> fields["endTime"], timeZone |-> "UTC"]
             ELSE [dateTime |-> Absent, timeZone |-> "UTC"],
   attendees |-> IF Has(fields, "attendees")
                   THEN [emails |-> fields["attendees"]]
                   ELSE [emails |-> Absent],
   conferenceData |-> existing.conferenceData]

\* the resource updateMeeting sends to events.update: a copy of the
\* existing event with every field that is not undefined written over it
updates(existing, fields) ==
  [existing EXCEPT
     !.summary = IF Has(fields, "summary") THEN fields["summary"] ELSE @,
     !.description =
        IF Has(fields, "description") THEN fields["description"] ELSE @,
     !.start = IF Has(fields, "startTime")
                 THEN [dateTime |-> fields["startTime"], timeZone |-> "UTC"]
                 ELSE @,
     !.end = IF Has(fields, "endTime")
               THEN [dateTime |-> fields["endTime"], timeZone |-> "UTC"]
               ELSE @,
     !.attendees = IF Has(fields, "attendees")
                     THEN [emails |-> fields["attendees"]]
                     ELSE @]

\* `const { meeting_id, ...updateFields } = args` in handleUpdateMeeting
updateFields(args) == [k \in DOMAIN args \ {"meeting_id"} |-> args[k]]

\* ------------------------------------------------------ the tool handlers
\* a tool call ends with the error thrown out of handleCallTool
Fail(call, error) ==
  [call EXCEPT !.pc = "done", !.out = CatchToolError(error)]

\* the first Calendar API call of a handler
FirstOp(name, args) ==
  CASE name = "get_meeting" -> "get"
    [] name = "update_meeting" -> "get"
    [] name = "delete_meeting" -> "delete"
    [] name = "create_meeting" ->
         IF Has(args, "check_conflicts") /\ ~Truthy(args["check_conflicts"])
           THEN "insert" ELSE "list"
    [] OTHER -> "list"

\* the calendars checkAvailability lists: ['primary'] by default
Calendars(args) == IF Has(args, "calendars") THEN args["calendars"] ELSE 1

\* handleCallTool after ensureAuthenticated returned: the switch on the
\* name, the handler's destructuring and parameter test, and the
\* GoogleMeetAPI method up to its first Calendar API call; a method of a
\* client without a calendar throws inside the method's try block
Dispatch(call, auth, client) ==
  IF call.name \notin ToolNames
    THEN Fail(call, McpError("MethodNotFound", <<"unknown tool">>))
  ELSE IF call.args = Undefined
    THEN Fail(call, [type |-> "TypeError", code |-> "none",
                     message |-> <<"cannot destructure undefined">>])
  ELSE IF \E k \in Required(call.name) : ~TruthyArg(call.args, k)
    THEN Fail(call, McpError("InvalidParams", <<"missing parameter">>))
  ELSE IF client # "initialized"
    THEN Fail([call EXCEPT !.invoked = TRUE, !.auth = auth,
                           !.client = client],
              GatewayError(<<"cannot read properties of null">>))
  ELSE [call EXCEPT !.pc = "provider", !.invoked = TRUE, !.auth = auth,
                    !.client = client,
                    !.calls = <<FirstOp(call.name, call.args)>>]

\* the result a handler returns
Result == [type |-> "result", code |-> "none", message |-> <<>>]

\* how a GoogleMeetAPI call ended: it threw, it returned a non-empty
\* conflict list, or it returned anything else
Answer(op, ok, conflicts) ==
  IF ~ok THEN "failed"
  ELSE IF op = "list" /\ conflicts THEN "conflicts"
  ELSE "ok"

\* a handleCreateMeeting that only logs a failed conflict check and goes
\* on to createMeeting
ReturnLoggingFailedCheck(call, ok, message, conflicts) ==
  LET op == call.calls[Len(call.calls)]
      heard == [call EXCEPT !.answers = Append(@, Answer(op, ok, conflicts))]
      then(next) == [heard EXCEPT !.calls = Append(@, next)]
      done == [heard EXCEPT !.pc = "done", !.out = Result]
  IN  IF call.name = "create_meeting" /\ op = "list"
        THEN [then("insert") EXCEPT !.warned = ok /\ conflicts]
      ELSE IF ~ok
        THEN Fail(heard, GatewayError(message))
      ELSE IF call.name = "update_meeting" /\ op = "get"
        THEN [then("update") EXCEPT
                !.written = <<updates(ExistingEvent,
                                      updateFields(call.args))>>]
      ELSE IF call.name = "check_availability"
              /\ Len(call.calls) < Calendars(call.args)
        THEN then("list")
      ELSE done

\* the continuation of the GoogleMeetAPI call a handler waits for: ok and
\* message are the call's outcome, conflicts says that a listing held an
\* overlapping event. Every handler awaits inside one try block, so a call
\* that throws ends the handler with the wrapped error; a conflict list
\* that is not empty sets the warning of handleCreateMeeting, which calls
\* createMeeting next in either case
Return(call, ok, message, conflicts) ==
  LET op == call.calls[Len(call.calls)]
      heard == [call EXCEPT !.answers = Append(@, Answer(op, ok, conflicts))]
      then(next) == [heard EXCEPT !.calls = Append(@, next)]
      done == [heard EXCEPT !.pc = "done", !.out = Result]
  IN  IF ~ok
        THEN Fail(heard, GatewayError(message))
      ELSE IF call.name = "create_meeting" /\ op = "list"
        THEN [then("insert") EXCEPT !.warned = conflicts]
      ELSE IF call.name = "update_meeting" /\ op = "get"
        THEN [then("update") EXCEPT
                !.written = <<updates(ExistingEvent,
                                      updateFields(call.args))>>]
      ELSE IF call.name = "check_availability"
              /\ Len(call.calls) < Calendars(call.args)
        THEN then("list")
      ELSE done

\* ------------------------------------------------- the Calendar API's data
Times == 0..MaxTime

\* an event of the provider: its start and end instants (they stand for
\* its identity too) and whether it carries conferenceData
Event(s, e, c) == [start |-> s, end |-> e, conferenceData |-> c]

\* the events a calendar listing holds for checkTimeConflicts
CalendarEvents ==
  { ev \in { Event(s, e, FALSE) : s \in Times, e \in Times } :
      ev.start <= ev.end }

\* the events events.list answers listMeetings with
MeetingEvents == { Event(s, s, c) : s \in Times, c \in BOOLEAN }

\* response.data.items: up to n of the events, in the provider's order
Listings(events, n) == UNION { [1..k -> events] : k \in 0..n }

\* the calendars argument of checkAvailability
CalendarLists == { <<"primary">>, <<"primary", "work">> }

\* the time ranges asked about
Queries == { [start |-> 1, end |-> 3], [start |-> 2, end |-> 4] }

\* ------------------------------------------------------ checkTimeConflicts
\* an overlap test that counts a touching boundary
eventOverlapsInclusive(event, checkStart, checkEnd) ==
  event.start <= checkEnd /\ checkStart <= event.end

\* `eventStart < checkEnd && checkStart < eventEnd`
eventOverlaps(event, checkStart, checkEnd) ==
  event.start < checkEnd /\ checkStart < event.end

\* the inner loop of checkTimeConflicts over one calendar's events
conflictsOf(events, calendarId, checkStart, checkEnd) ==
  LET T(ev) == eventOverlaps(ev, checkStart, checkEnd)
      sel == SelectSeq(events, T)
  IN  [i \in 1..Len(sel) |->
         [start_time |-> sel[i].start, end_time |-> sel[i].end,
          calendar |-> calendarId]]

\* checkAvailability(start, end, calendars) up to the first events.list of
\* checkTimeConflicts
CheckAvailabilityCall(query, calendars) ==
  [op |-> "checkAvailability", pc |-> "list", query |-> query,
   calendars |-> calendars, i |-> 1, listed |-> <<>>, conflicts |-> <<>>,
   available |-> FALSE, out |-> NoOut]

\* ------------------------------------------------------------ listMeetings
\* a filter that keeps every event
hasConferenceDataAlways(event) == TRUE

\* `if (event.conferenceData)` in the loop of listMeetings
hasConferenceData(event) == event.conferenceData

\* _formatMeetingData never answers null for an event that carries
\* conferenceData
formatMeetingData(event) ==
  [id |-> event.start, start_time |-> event.start, end_time |-> event.end]

\* the loop of listMeetings
meetingsOf(events) ==
  LET sel == SelectSeq(events, hasConferenceData)
  IN  [i \in 1..Len(sel) |-> formatMeetingData(sel[i])]

\* listMeetings(maxResults) up to its events.list
ListMeetingsCall(maxResults) ==
  [op |-> "listMeetings", pc |-> "list", maxResults |-> maxResults,
   listed |-> <<>>, meetings |-> <<>>, out |-> NoOut]

\* ------------------------------------------------------------------ Init
\* token files of the authorization flow: none, a current bundle, an
\* expired bundle (SpecTokens below draws every token file)
FlowTokenFiles ==
  { MissingFile,
    Bundle(StoredToken, StoredToken, MaxExpiry),
    Bundle(StoredToken, StoredToken, Now - 1) }

\* credentials files of the authorization flow: unreadable, a usable one,
\* one with neither key (SpecTokens below draws every credentials file)
FlowCredFiles == {"unreadable", "installed", "neither"}

\* port environments of the authorization flow: the first port occupied,
\* everything occupied (SpecPorts below draws every set of occupied ports)
FlowOccupied == { {StartPort}, Ports }

InitProgram ==
  /\ pc = "idle"
  /\ result = "none"
  /\ hadValidTokens = FALSE
  /\ browser = "unset"
  /\ port = StartPort
  /\ server = 0
  /\ listening = FALSE
  /\ oAuth2Client = 0
  /\ authCompletedSuccessfully = FALSE
  /\ checkInterval = FALSE
  /\ timeoutTimer = "unset"
  /\ reqs = [r \in ReqIds |-> NoReq]
  /\ lastResp = NoResp
  /\ activeConnections = {}
  /\ stopPc = "none"
  /\ sockets = [s \in Sockets |-> "free"]
  /\ stops = [k \in StopIds |-> "none"]

Init ==
  /\ ServerOff
  /\ credFile \in FlowCredFiles
  /\ tokenFile \in FlowTokenFiles
  /\ occupied \in FlowOccupied
  /\ InitProgram

\* ----------------------------------------------------------------- start
\* a start() that goes on to bind a listener although the stored tokens
\* are valid
StartCallWithoutShortCircuit(openBrowser, refreshOk, writeOk) ==
  /\ Alive
  /\ pc = "idle"
  /\ LET hv == hasValidTokens(tokenFile, credFile, refreshOk, writeOk)
     IN  /\ tokenFile' = hv.file
         /\ hadValidTokens' = hv.valid
  /\ pc' = "loadCredentials"
  /\ browser' = IF openBrowser THEN "requested" ELSE "notRequested"
  /\ UNCHANGED <<credFile, occupied, port, server, listening, oAuth2Client,
                 checkInterval, timeoutTimer, reqs, lastResp,
                 activeConnections, stopPc, authCompletedSuccessfully, result>>
  /\ UNCHANGED serverSide
  /\ UNCHANGED stopSide

\* start(openBrowser) up to the end of `await this.hasValidTokens()`
StartCall(openBrowser, refreshOk, writeOk) ==
  /\ Alive
  /\ pc = "idle"
  /\ LET hv == hasValidTokens(tokenFile, credFile, refreshOk, writeOk)
     IN  /\ tokenFile' = hv.file
         /\ hadValidTokens' = hv.valid
         /\ IF hv.valid
              THEN /\ authCompletedSuccessfully' = TRUE
                   /\ result' = "true"
                   /\ pc' = "returned"
              ELSE /\ pc' = "loadCredentials"
                   /\ UNCHANGED <<authCompletedSuccessfully, result>>
  /\ browser' = IF openBrowser THEN "requested" ELSE "notRequested"
  /\ UNCHANGED <<credFile, occupied, port, server, listening, oAuth2Client,
                 checkInterval, timeoutTimer, reqs, lastResp,
                 activeConnections, stopPc>>
  /\ UNCHANGED serverSide
  /\ UNCHANGED stopSide

\* `await this.loadCredentials()` in start
StartLoadCredentials ==
  /\ Alive
  /\ pc = "loadCredentials"
  /\ IF loadCredentials(credFile).ok
       THEN /\ pc' = "findAvailablePort"
            /\ port' = StartPort
            /\ UNCHANGED result
       ELSE /\ pc' = "returned"
            /\ result' = StartCatch
            /\ UNCHANGED port
  /\ UNCHANGED <<credFile, tokenFile, occupied, hadValidTokens, browser,
                 server, listening, oAuth2Client, authCompletedSuccessfully,
                 checkInterval, timeoutTimer, reqs, lastResp,
                 activeConnections, stopPc>>
  /\ UNCHANGED serverSide
  /\ UNCHANGED stopSide

\* a scan that skips every other port
NextPortSkipping(p) == p + 2

\* the port the scan probes after `p`
NextPort(p) == p + 1

\* one iteration of the loop of findAvailablePort, and on success the rest
\* of start up to its next await; bindOk is FALSE when listen fails with an
\* error other than EADDRINUSE
FindAvailablePort(bindOk) ==
  /\ Alive
  /\ pc = "findAvailablePort"
  /\ IF port \in occupied
       THEN \* EADDRINUSE: next port, or the Error after the loop
            /\ IF NextPort(port) \in Ports
                 THEN /\ port' = NextPort(port)
                      /\ UNCHANGED <<pc, result>>
                 ELSE /\ pc' = "returned"
                      /\ result' = StartCatch
                      /\ UNCHANGED port
            /\ UNCHANGED <<server, listening, oAuth2Client, checkInterval,
                           timeoutTimer>>
       ELSE IF bindOk
         THEN /\ server' = port
              /\ listening' = TRUE
              /\ oAuth2Client' = port
              /\ IF browser = "requested"
                   THEN /\ pc' = "openBrowser"
                        /\ UNCHANGED <<checkInterval, timeoutTimer>>
                   ELSE /\ pc' = "waiting"
                        /\ checkInterval' = TRUE
                        /\ timeoutTimer' = "armed"
              /\ UNCHANGED <<port, result>>
         ELSE /\ pc' = "returned"
              /\ result' = StartCatch
              /\ UNCHANGED <<port, server, listening, oAuth2Client,
                             checkInterval, timeoutTimer>>
  /\ UNCHANGED <<credFile, tokenFile, occupied, hadValidTokens, browser,
                 authCompletedSuccessfully, reqs, lastResp, activeConnections,
                 stopPc>>
  /\ UNCHANGED serverSide
  /\ UNCHANGED stopSide

\* the continuation of `await open(authUrl)`: a failure is only logged
StartOpenBrowser(opened) ==
  /\ Alive
  /\ pc = "openBrowser"
  /\ browser' = IF opened THEN "opened" ELSE "failed"
  /\ pc' = "waiting"
  /\ checkInterval' = TRUE
  /\ timeoutTimer' = "armed"
  /\ UNCHANGED <<credFile, tokenFile, occupied, result, hadValidTokens, port,
                 server, listening, oAuth2Client, authCompletedSuccessfully,
                 reqs, lastResp, activeConnections, stopPc>>
  /\ UNCHANGED serverSide
  /\ UNCHANGED stopSide

\* the callback of setInterval(..., 1000)
PollTick ==
  /\ Alive
  /\ checkInterval
  /\ IF PollObserves(authCompletedSuccessfully)
       THEN /\ checkInterval' = FALSE
            /\ Resolve("true")
       ELSE UNCHANGED <<checkInterval, result, pc>>
  /\ UNCHANGED <<credFile, tokenFile, occupied, hadValidTokens, browser, port,
                 server, listening, oAuth2Client, authCompletedSuccessfully,
                 timeoutTimer, reqs, lastResp, activeConnections, stopPc>>
  /\ UNCHANGED serverSide
  /\ UNCHANGED stopSide

\* the callback of setTimeout(..., 300000)
Timeout ==
  /\ Alive
  /\ timeoutTimer = "armed"
  /\ timeoutTimer' = "fired"
  /\ checkInterval' = FALSE
  /\ IF ~authCompletedSuccessfully
       THEN Resolve("false")
       ELSE UNCHANGED <<result, pc>>
  /\ UNCHANGED <<credFile, tokenFile, occupied, hadValidTokens, browser, port,
                 server, listening, oAuth2Client, authCompletedSuccessfully,
                 reqs, lastResp, activeConnections, stopPc>>
  /\ UNCHANGED serverSide
  /\ UNCHANGED stopSide

\* ------------------------------------------------------ the HTTP listener
\* server.on('connection'): a client connects and the socket is tracked
Connect(s) ==
  /\ Alive
  /\ listening
  /\ s \notin activeConnections
  /\ sockets[s] = "free"
  /\ activeConnections' = activeConnections \cup {s}
  /\ sockets' = [sockets EXCEPT ![s] = "open"]
  /\ UNCHANGED stops
  /\ UNCHANGED <<credFile, tokenFile, occupied, pc, result, hadValidTokens,
                 browser, port, server, listening, oAuth2Client,
                 authCompletedSuccessfully, checkInterval, timeoutTimer, reqs,
                 lastResp, stopPc>>
  /\ UNCHANGED serverSide

\* socket.on('close'): the client closed the connection, taken together
\* with the 'close' event of the socket
SocketClose(s) ==
  /\ Alive
  /\ s \in activeConnections
  /\ activeConnections' = activeConnections \ {s}
  /\ sockets' = [sockets EXCEPT ![s] = "free"]
  /\ UNCHANGED stops
  /\ UNCHANGED <<credFile, tokenFile, occupied, pc, result, hadValidTokens,
                 browser, port, server, listening, oAuth2Client,
                 authCompletedSuccessfully, checkInterval, timeoutTimer, reqs,
                 lastResp, stopPc>>
  /\ UNCHANGED serverSide

\* the arrival number the next callback with a code gets
FreeReqs == { r \in ReqIds : reqs[r].pc = "unused" }
NextReq == CHOOSE r \in FreeReqs : \A q \in FreeReqs : r <= q

\* the request handler of createServer up to its first await: the root
\* page, the error page, the missing-code answer and 404 are written at
\* once; a callback with a code calls getToken and waits
HandleRequest(req) ==
  /\ Alive
  /\ activeConnections # {}
  /\ IF Route(req) = "exchange"
       THEN /\ FreeReqs # {}
            /\ reqs' = [reqs EXCEPT ![NextReq].pc = "getToken",
                                    ![NextReq].req = req,
                                    ![NextReq].retry =
                                       (lastResp.status = 400
                                        /\ ~lastResp.req.error)]
            /\ UNCHANGED lastResp
       ELSE /\ lastResp' = [req |-> req, status |-> Status(Route(req))]
            /\ UNCHANGED reqs
  /\ UNCHANGED <<credFile, tokenFile, occupied, pc, result, hadValidTokens,
                 browser, port, server, listening, oAuth2Client,
                 authCompletedSuccessfully, checkInterval, timeoutTimer,
                 activeConnections, stopPc>>
  /\ UNCHANGED serverSide
  /\ UNCHANGED stopSide

\* the catch block of the callback: reset the flag, write the 500 page
CallbackCatch(r) ==
  /\ authCompletedSuccessfully' = CallbackCatchFlag(authCompletedSuccessfully)
  /\ reqs' = [reqs EXCEPT ![r].pc = "done500", ![r].status = 500]
  /\ lastResp' = [req |-> reqs[r].req, status |-> 500]

\* a callback that sets the flag before it saves the tokens
CallbackGetTokenFlagFirst(r, exchangeOk) ==
  /\ Alive
  /\ reqs[r].pc = "getToken"
  /\ IF exchangeOk
       THEN /\ reqs' = [reqs EXCEPT ![r].pc = "saveTokens",
                                    ![r].setFlag = TRUE]
            /\ authCompletedSuccessfully' = TRUE
            /\ UNCHANGED lastResp
       ELSE CallbackCatch(r)
  /\ UNCHANGED <<credFile, tokenFile, occupied, pc, result, hadValidTokens,
                 browser, port, server, listening, oAuth2Client, checkInterval,
                 timeoutTimer, activeConnections, stopPc>>
  /\ UNCHANGED serverSide
  /\ UNCHANGED stopSide

\* the continuation of `await this.oAuth2Client.getToken(code)`
CallbackGetToken(r, exchangeOk) ==
  /\ Alive
  /\ reqs[r].pc = "getToken"
  /\ IF exchangeOk
       THEN /\ reqs' = [reqs EXCEPT ![r].pc = "saveTokens"]
            /\ UNCHANGED <<authCompletedSuccessfully, lastResp>>
       ELSE CallbackCatch(r)
  /\ UNCHANGED <<credFile, tokenFile, occupied, pc, result, hadValidTokens,
                 browser, port, server, listening, oAuth2Client, checkInterval,
                 timeoutTimer, activeConnections, stopPc>>
  /\ UNCHANGED serverSide
  /\ UNCHANGED stopSide

\* saveTokens(tokens) called by the callback: mkdir and writeFile finish
CallbackSaveTokens(r, writeOk) ==
  /\ Alive
  /\ reqs[r].pc = "saveTokens"
  /\ LET s == saveTokens(tokenFile, IssuedBundle(r), writeOk)
     IN  /\ tokenFile' = s.file
         /\ IF s.ok
              THEN /\ reqs' = [reqs EXCEPT ![r].pc = "saved",
                                           ![r].wrote = TRUE]
                   /\ UNCHANGED <<authCompletedSuccessfully, lastResp>>
              ELSE CallbackCatch(r)
  /\ UNCHANGED <<credFile, occupied, pc, result, hadValidTokens, browser, port,
                 server, listening, oAuth2Client, checkInterval, timeoutTimer,
                 activeConnections, stopPc>>
  /\ UNCHANGED serverSide
  /\ UNCHANGED stopSide

\* the continuation of `await this.saveTokens(tokens)`: set the flag and
\* write the success page
CallbackFinish(r) ==
  /\ Alive
  /\ reqs[r].pc = "saved"
  /\ authCompletedSuccessfully' = TRUE
  /\ reqs' = [reqs EXCEPT ![r].pc = "done200", ![r].status = 200,
                          ![r].setFlag = TRUE,
                          ![r].early = (timeoutTimer # "fired")]
  /\ lastResp' = [req |-> reqs[r].req, status |-> 200]
  /\ UNCHANGED <<credFile, tokenFile, occupied, pc, result, hadValidTokens,
                 browser, port, server, listening, oAuth2Client, checkInterval,
                 timeoutTimer, activeConnections, stopPc>>
  /\ UNCHANGED serverSide
  /\ UNCHANGED stopSide

\* ------------------------------------------------------------------ stop
\* SIGINT: cleanup() calls stop(), which destroys the tracked connections
\* and closes the listener; with no listener stop resolves at once and the
\* process exits
Sigint ==
  /\ stopPc = "none"
  /\ IF server # 0
       THEN /\ activeConnections' = {}
            /\ sockets' = [s \in Sockets |->
                             IF s \in activeConnections
                               THEN "free" ELSE sockets[s]]
            /\ listening' = FALSE
            /\ stopPc' = "closing"
       ELSE /\ stopPc' = "exited"
            /\ UNCHANGED <<activeConnections, sockets, listening>>
  /\ UNCHANGED <<credFile, tokenFile, occupied, pc, result, hadValidTokens,
                 browser, port, server, oAuth2Client,
                 authCompletedSuccessfully, checkInterval, timeoutTimer, reqs,
                 lastResp>>
  /\ UNCHANGED stops
  /\ UNCHANGED serverSide

\* the callback of this.server.close(): stop resolves, the process exits
StopCloseCallback ==
  /\ stopPc = "closing"
  /\ server' = 0
  /\ stopPc' = "exited"
  /\ UNCHANGED <<credFile, tokenFile, occupied, pc, result, hadValidTokens,
                 browser, port, listening, oAuth2Client,
                 authCompletedSuccessfully, checkInterval, timeoutTimer, reqs,
                 lastResp, activeConnections>>
  /\ UNCHANGED serverSide
  /\ UNCHANGED stopSide

\* the 2 s timer of stop fires before the close callback
StopTimeout ==
  /\ stopPc = "closing"
  /\ server' = 0
  /\ stopPc' = "exited"
  /\ UNCHANGED <<credFile, tokenFile, occupied, pc, result, hadValidTokens,
                 browser, port, listening, oAuth2Client,
                 authCompletedSuccessfully, checkInterval, timeoutTimer, reqs,
                 lastResp, activeConnections>>
  /\ UNCHANGED serverSide
  /\ UNCHANGED stopSide

\* ------------------------------------------------- stop(), call by call
\* the peer closes a connection: the socket is closed, its 'close' event
\* is still to come
SocketEnd(s) ==
  /\ Alive
  /\ sockets[s] = "open"
  /\ sockets' = [sockets EXCEPT ![s] = "closed"]
  /\ UNCHANGED <<credFile, tokenFile, occupied, pc, result, hadValidTokens,
                 browser, port, server, listening, oAuth2Client,
                 authCompletedSuccessfully, checkInterval, timeoutTimer, reqs,
                 lastResp, activeConnections, stopPc, stops>>
  /\ UNCHANGED serverSide

\* socket.on('close') of a socket that was closed or destroyed
SocketCloseEvent(s) ==
  /\ Alive
  /\ sockets[s] \in {"closed", "destroyed"}
  /\ activeConnections' = activeConnections \ {s}
  /\ sockets' = [sockets EXCEPT ![s] = "free"]
  /\ UNCHANGED <<credFile, tokenFile, occupied, pc, result, hadValidTokens,
                 browser, port, server, listening, oAuth2Client,
                 authCompletedSuccessfully, checkInterval, timeoutTimer, reqs,
                 lastResp, stopPc, stops>>
  /\ UNCHANGED serverSide

\* the calls of stop() are numbered in the order they are made
NextStopId(k) ==
  /\ stops[k] = "none"
  /\ \A j \in StopIds : j < k => stops[j] # "none"

\* the promise of call k has resolved: at once because there was no
\* listener, by the close callback, or by the 2 s timer, which abandons the
\* handle while the callback may still come
StopResolved(k) == stops[k] \in {"noListener", "closed", "abandoned"}

\* a stop() that empties the set without destroying the sockets in it
StopWithoutDestroy(k) ==
  /\ Alive
  /\ NextStopId(k)
  /\ IF server # 0
       THEN /\ activeConnections' = {}
            /\ listening' = FALSE
            /\ stops' = [stops EXCEPT ![k] = "closing"]
            /\ UNCHANGED sockets
       ELSE /\ stops' = [stops EXCEPT ![k] = "noListener"]
            /\ UNCHANGED <<activeConnections, sockets, listening>>
  /\ UNCHANGED <<credFile, tokenFile, occupied, pc, result, hadValidTokens,
                 browser, port, server, oAuth2Client,
                 authCompletedSuccessfully, checkInterval, timeoutTimer, reqs,
                 lastResp, stopPc>>
  /\ UNCHANGED serverSide

\* stop() up to the return of its promise. With a listener: every tracked
\* socket is destroyed, the set is cleared, the 2 s timer is armed and
\* this.server.close(callback) is called, after which the listener accepts
\* nothing. Without a listener the promise resolves at once.
Stop(k) ==
  /\ Alive
  /\ NextStopId(k)
  /\ IF server # 0
       THEN /\ sockets' = [s \in Sockets |->
                             IF s \in activeConnections /\ sockets[s] = "open"
                               THEN "destroyed" ELSE sockets[s]]
            /\ activeConnections' = {}
            /\ listening' = FALSE
            /\ stops' = [stops EXCEPT ![k] = "closing"]
       ELSE /\ stops' = [stops EXCEPT ![k] = "noListener"]
            /\ UNCHANGED <<activeConnections, sockets, listening>>
  /\ UNCHANGED <<credFile, tokenFile, occupied, pc, result, hadValidTokens,
                 browser, port, server, oAuth2Client,
                 authCompletedSuccessfully, checkInterval, timeoutTimer, reqs,
                 lastResp, stopPc>>
  /\ UNCHANGED serverSide

\* the callback of this.server.close() of call k, which the listener runs
\* once no connection is left: the timer is cleared, the handle is set to
\* null, the promise resolves (again, after the timer had fired)
StopClosed(k) ==
  /\ Alive
  /\ stops[k] \in {"closing", "abandoned"}
  /\ \A s \in Sockets : sockets[s] # "open"
  /\ server' = 0
  /\ stops' = [stops EXCEPT ![k] = "closed"]
  /\ UNCHANGED <<credFile, tokenFile, occupied, pc, result, hadValidTokens,
                 browser, port, listening, oAuth2Client,
                 authCompletedSuccessfully, checkInterval, timeoutTimer, reqs,
                 lastResp, activeConnections, stopPc, sockets>>
  /\ UNCHANGED serverSide

\* a 2 s timer that gives the handle up without resolving the promise
StopGraceWithoutResolve(k) ==
  /\ Alive
  /\ stops[k] = "closing"
  /\ server # 0
  /\ server' = 0
  /\ UNCHANGED <<credFile, tokenFile, occupied, pc, result, hadValidTokens,
                 browser, port, listening, oAuth2Client,
                 authCompletedSuccessfully, checkInterval, timeoutTimer, reqs,
                 lastResp, activeConnections, stopPc, sockets, stops>>
  /\ UNCHANGED serverSide

\* the 2 s timer of call k fires before its close callback: the handle is
\* set to null and the promise resolves
StopGrace(k) ==
  /\ Alive
  /\ stops[k] = "closing"
  /\ server' = 0
  /\ stops' = [stops EXCEPT ![k] = "abandoned"]
  /\ UNCHANGED <<credFile, tokenFile, occupied, pc, result, hadValidTokens,
                 browser, port, listening, oAuth2Client,
                 authCompletedSuccessfully, checkInterval, timeoutTimer, reqs,
                 lastResp, activeConnections, stopPc, sockets>>
  /\ UNCHANGED serverSide

\* ------------------------------------------------------- the MCP server
\* the fields of the AuthServer instance and the position of its start()
flowVars == <<pc, result, hadValidTokens, browser, port, server, listening,
              oAuth2Client, authCompletedSuccessfully, checkInterval,
              timeoutTimer, reqs, lastResp, activeConnections>>

\* `new AuthServer(...)` followed by start(true) up to its first await; a
\* listener the replaced instance holds stays bound
NewAuthServer ==
  /\ pc' = "idle"
  /\ result' = "none"
  /\ hadValidTokens' = FALSE
  /\ browser' = "unset"
  /\ port' = StartPort
  /\ server' = 0
  /\ listening' = FALSE
  /\ oAuth2Client' = 0
  /\ authCompletedSuccessfully' = FALSE
  /\ checkInterval' = FALSE
  /\ timeoutTimer' = "unset"
  /\ reqs' = [r \in ReqIds |-> NoReq]
  /\ lastResp' = NoResp
  /\ activeConnections' = {}
  /\ sockets' = [s \in Sockets |-> "free"]
  /\ occupied' = IF server # 0 THEN occupied \cup {server} ELSE occupied
  /\ authServers' = authServers + 1

\* a transport that is connected while run() still authenticates
ConnectedBeforeAuthentication == run \in {"auth", "connected"}

\* the transport is connected: the client's tool calls can arrive
Connected == run = "connected"

\* a run() that connects the transport whatever the answer is
AuthReturnConnectsAnyway(c, ok) ==
  IF c = 0
    THEN /\ run' = "connected"
         /\ UNCHANGED tools
    ELSE /\ tools' = [tools EXCEPT ![c] =
                        IF ok
                          THEN Dispatch(@, isAuthenticated', googleMeet')
                          ELSE Fail(@, McpError("InvalidRequest",
                                                <<"authentication failed">>))]
         /\ UNCHANGED run

\* what the caller of initializeAuthentication does with its answer: run()
\* connects the transport or exits, ensureAuthenticated lets the tool call
\* go on or throws
AuthReturn(c, ok) ==
  IF c = 0
    THEN /\ run' = IF ok THEN "connected" ELSE "exited"
         /\ UNCHANGED tools
    ELSE /\ tools' = [tools EXCEPT ![c] =
                        IF ok
                          THEN Dispatch(@, isAuthenticated', googleMeet')
                          ELSE Fail(@, McpError("InvalidRequest",
                                                <<"authentication failed">>))]
         /\ UNCHANGED run

\* the continuation of the first `await this.googleMeet.initialize()` of
\* initializeAuthentication
AuthInitialize(c, refreshOk, writeOk) ==
  /\ Alive
  /\ authCalls[c] = "initialize"
  /\ LET i == initialize(credFile, tokenFile, refreshOk, writeOk)
     IN  /\ tokenFile' = i.file
         /\ IF i.ok
              THEN /\ isAuthenticated' = TRUE
                   /\ googleMeet' = "initialized"
                   /\ authCalls' = [authCalls EXCEPT ![c] = "none"]
                   /\ AuthReturn(c, TRUE)
                   /\ UNCHANGED <<flowVars, sockets, occupied, authServers>>
              ELSE /\ NewAuthServer
                   /\ authCalls' = [authCalls EXCEPT ![c] = "start"]
                   /\ UNCHANGED <<isAuthenticated, googleMeet, run, tools>>
  /\ UNCHANGED <<credFile, stopPc, stops, gw>>

\* the continuation of `await this.authServer.start(true)`
AuthStartResolved(c) ==
  /\ Alive
  /\ authCalls[c] = "start"
  /\ result # "none"
  /\ IF result = "true"
       THEN /\ authCalls' = [authCalls EXCEPT ![c] = "reinitialize"]
            /\ UNCHANGED <<run, tools>>
       ELSE /\ authCalls' = [authCalls EXCEPT ![c] = "none"]
            /\ AuthReturn(c, FALSE)
  /\ UNCHANGED <<credFile, tokenFile, occupied, flowVars, stopPc,
                 isAuthenticated, googleMeet, authServers, gw>>
  /\ UNCHANGED stopSide

\* the continuation of the second `await this.googleMeet.initialize()`:
\* a failure is caught by the outer catch block, which returns false
AuthReinitialize(c, refreshOk, writeOk) ==
  /\ Alive
  /\ authCalls[c] = "reinitialize"
  /\ LET i == initialize(credFile, tokenFile, refreshOk, writeOk)
     IN  /\ tokenFile' = i.file
         /\ isAuthenticated' = (isAuthenticated \/ i.ok)
         /\ googleMeet' = IF i.ok THEN "initialized" ELSE googleMeet
         /\ authCalls' = [authCalls EXCEPT ![c] = "none"]
         /\ AuthReturn(c, i.ok)
  /\ UNCHANGED <<credFile, occupied, flowVars, stopPc, authServers, gw>>
  /\ UNCHANGED stopSide

\* handleCallTool up to its first await: ensureAuthenticated returns at
\* once when isAuthenticated is set and calls initializeAuthentication
\* otherwise, which replaces this.googleMeet by a new GoogleMeetAPI
ToolCall(t, req) ==
  /\ Alive
  /\ Connected
  /\ tools[t].pc = "none"
  /\ LET call == [NoCall EXCEPT !.name = req.name, !.args = req.args]
     IN  IF isAuthenticated
           THEN /\ tools' = [tools EXCEPT ![t] =
                               Dispatch(call, isAuthenticated, googleMeet)]
                /\ UNCHANGED <<authCalls, googleMeet>>
           ELSE /\ tools' = [tools EXCEPT ![t] = [call EXCEPT !.pc = "ensure"]]
                /\ authCalls' = [authCalls EXCEPT ![t] = "initialize"]
                /\ googleMeet' = "created"
  /\ UNCHANGED <<credFile, tokenFile, occupied, flowVars, stopPc, run,
                 isAuthenticated, authServers, gw>>
  /\ UNCHANGED stopSide

\* the continuation of the Calendar API call a tool call waits for
ToolReturn(t, ok, message, conflicts) ==
  /\ Alive
  /\ tools[t].pc = "provider"
  /\ tools' = [tools EXCEPT ![t] = Return(@, ok, message, conflicts)]
  /\ UNCHANGED <<credFile, tokenFile, occupied, flowVars, stopPc, srvVars, gw>>
  /\ UNCHANGED stopSide

\* ------------------------------------------------ GoogleMeetAPI methods
\* the continuation of `await this.calendar.events.list(...)` in
\* checkTimeConflicts for the calendar under way: the call failed with the
\* message, or it answered with some listing; after the last calendar
\* checkAvailability returns
CheckTimeConflictsReturn(ok, message) ==
  /\ Alive
  /\ gw.op = "checkAvailability"
  /\ gw.pc = "list"
  /\ IF ~ok
       THEN gw' = [gw EXCEPT
                     !.pc = "done",
                     !.out = [type |-> "Error", code |-> "none",
                              message |-> <<"availability: ", "conflicts: ">>
                                          \o message]]
       ELSE \E events \in Listings(CalendarEvents, MaxEvents) :
              LET cal == gw.calendars[gw.i]
                  found == gw.conflicts \o
                           conflictsOf(events, cal, gw.query.start,
                                       gw.query.end)
                  last == gw.i = Len(gw.calendars)
              IN  gw' = [gw EXCEPT
                           !.listed = @ \o [j \in 1..Len(events) |->
                                              [calendar |-> cal,
                                               event |-> events[j]]],
                           !.conflicts = found,
                           !.i = @ + 1,
                           !.pc = IF last THEN "done" ELSE "list",
                           !.available = IF last THEN Len(found) = 0 ELSE @,
                           !.out = IF last THEN Result ELSE @]
  /\ UNCHANGED <<credFile, tokenFile, occupied, flowVars, stopPc, srvVars,
                 tools>>
  /\ UNCHANGED stopSide

\* the continuation of `await this.calendar.events.list(params)` in
\* listMeetings: the call failed with the message, or it answered with at
\* most maxResults events
ListMeetingsReturn(ok, message) ==
  /\ Alive
  /\ gw.op = "listMeetings"
  /\ gw.pc = "list"
  /\ IF ~ok
       THEN gw' = [gw EXCEPT
                     !.pc = "done",
                     !.out = [type |-> "Error", code |-> "none",
                              message |-> <<"list meetings: ">> \o message]]
       ELSE \E events \in Listings(MeetingEvents, gw.maxResults) :
              gw' = [gw EXCEPT !.pc = "done", !.listed = events,
                               !.meetings = meetingsOf(events),
                               !.out = Result]
  /\ UNCHANGED <<credFile, tokenFile, occupied, flowVars, stopPc, srvVars,
                 tools>>
  /\ UNCHANGED stopSide

\* ------------------------------------------------------------------ Next
Next ==
  \/ \E ob \in BOOLEAN, refreshOk \in BOOLEAN, writeOk \in BOOLEAN :
       StartCall(ob, refreshOk, writeOk)
  \/ StartLoadCredentials
  \/ \E bindOk \in BOOLEAN : FindAvailablePort(bindOk)
  \/ \E opened \in BOOLEAN : StartOpenBrowser(opened)
  \/ PollTick
  \/ Timeout
  \/ \E s \in Sockets : Connect(s)
  \/ \E s \in Sockets : SocketClose(s)
  \/ \E req \in Requests : HandleRequest(req)
  \/ \E r \in ReqIds, ok \in BOOLEAN : CallbackGetToken(r, ok)
  \/ \E r \in ReqIds, ok \in BOOLEAN : CallbackSaveTokens(r, ok)
  \/ \E r \in ReqIds : CallbackFinish(r)
  \/ Sigint
  \/ StopCloseCallback
  \/ StopTimeout

Spec == Init /\ [][Next]_vars

\* ---------------------------------------------- the port scan on its own
\* start() from a state without usable tokens, under every set of occupied
\* ports, up to the moment the listener is bound or the scan gives up
InitPorts ==
  /\ ServerOff
  /\ credFile \in {"web", "installed"}
  /\ tokenFile = MissingFile
  /\ occupied \in SUBSET Ports
  /\ InitProgram

NextPorts ==
  \/ \E ob \in BOOLEAN, refreshOk \in BOOLEAN, writeOk \in BOOLEAN :
       StartCall(ob, refreshOk, writeOk)
  \/ StartLoadCredentials
  \/ \E bindOk \in BOOLEAN : FindAvailablePort(bindOk)

SpecPorts == InitPorts /\ [][NextPorts]_vars

\* ------------------------------------------ the token check on its own
\* start() up to the moment the listener is bound, under every token file
\* and every credentials file
InitTokens ==
  /\ ServerOff
  /\ credFile \in CredFiles
  /\ tokenFile \in TokenFiles
  /\ occupied = {}
  /\ InitProgram

NextTokens ==
  \/ \E ob \in BOOLEAN, refreshOk \in BOOLEAN, writeOk \in BOOLEAN :
       StartCall(ob, refreshOk, writeOk)
  \/ StartLoadCredentials
  \/ \E bindOk \in BOOLEAN : FindAvailablePort(bindOk)

SpecTokens == InitTokens /\ [][NextTokens]_vars

\* ----------------------------------------------- the startup of the server
\* no AuthServer constructed yet
NoAuthServer ==
  /\ pc = "none"
  /\ result = "none"
  /\ hadValidTokens = FALSE
  /\ browser = "unset"
  /\ port = StartPort
  /\ server = 0
  /\ listening = FALSE
  /\ oAuth2Client = 0
  /\ authCompletedSuccessfully = FALSE
  /\ checkInterval = FALSE
  /\ timeoutTimer = "unset"
  /\ reqs = [r \in ReqIds |-> NoReq]
  /\ lastResp = NoResp
  /\ activeConnections = {}
  /\ stopPc = "none"
  /\ sockets = [s \in Sockets |-> "free"]
  /\ stops = [k \in StopIds |-> "none"]
  /\ authServers = 0

\* run() up to its first await: initializeAuthentication made a
\* GoogleMeetAPI and waits for initialize()
RunStarted ==
  /\ run = "auth"
  /\ authCalls = [c \in Callers |-> IF c = 0 THEN "initialize" ELSE "none"]
  /\ isAuthenticated = FALSE
  /\ googleMeet = "created"
  /\ tools = [t \in ToolIds |-> NoCall]
  /\ gw = NoGw

\* run() under every token file and every credentials file, up to the
\* moment the listener is bound
InitStartup ==
  /\ credFile \in CredFiles
  /\ tokenFile \in TokenFiles
  /\ occupied = {}
  /\ NoAuthServer
  /\ RunStarted

NextStartup ==
  \/ \E c \in Callers, refreshOk \in BOOLEAN, writeOk \in BOOLEAN :
       AuthInitialize(c, refreshOk, writeOk)
  \/ \E refreshOk \in BOOLEAN, writeOk \in BOOLEAN :
       StartCall(TRUE, refreshOk, writeOk)
  \/ StartLoadCredentials
  \/ \E bindOk \in BOOLEAN : FindAvailablePort(bindOk)
  \/ \E c \in Callers : AuthStartResolved(c)
  \/ \E c \in Callers, refreshOk \in BOOLEAN, writeOk \in BOOLEAN :
       AuthReinitialize(c, refreshOk, writeOk)

SpecStartup == InitStartup /\ [][NextStartup]_vars

\* ------------------------------------------------ the server as a whole
\* run() from a usable credentials file and no token file, a current
\* bundle, an expired bundle or a bundle without a refresh token; the
\* ports are free
ServerTokenFiles ==
  { MissingFile,
    Bundle(StoredToken, StoredToken, MaxExpiry),
    Bundle(StoredToken, StoredToken, Now - 1),
    Bundle(StoredToken, Absent, MaxExpiry) }

InitServer ==
  /\ credFile \in {"installed", "neither"}
  /\ tokenFile \in ServerTokenFiles
  /\ occupied = {}
  /\ NoAuthServer
  /\ RunStarted

\* the tool calls of the client: one that reaches the Calendar API, one
\* that lacks its parameter, one of an unknown tool
ServerToolRequests ==
  { [name |-> "list_meetings", args |-> <<>>],
    [name |-> "get_meeting", args |-> <<>>],
    [name |-> "unknown_tool", args |-> <<>>] }

\* the requests the browser sends to the listener: the callback of a
\* granted and of a refused authorization
ServerRequests ==
  { req \in Requests : req.path = "/oauth2callback" /\ (req.code \/ req.error) }

\* the client sends no SIGINT and the browser keeps its connection open
NextServer ==
  \/ \E c \in Callers, refreshOk \in BOOLEAN, writeOk \in BOOLEAN :
       AuthInitialize(c, refreshOk, writeOk)
  \/ \E refreshOk \in BOOLEAN, writeOk \in BOOLEAN :
       StartCall(TRUE, refreshOk, writeOk)
  \/ StartLoadCredentials
  \/ \E bindOk \in BOOLEAN : FindAvailablePort(bindOk)
  \/ \E opened \in BOOLEAN : StartOpenBrowser(opened)
  \/ PollTick
  \/ Timeout
  \/ \E s \in Sockets : Connect(s)
  \/ \E req \in ServerRequests : HandleRequest(req)
  \/ \E r \in ReqIds, ok \in BOOLEAN : CallbackGetToken(r, ok)
  \/ \E r \in ReqIds, ok \in BOOLEAN : CallbackSaveTokens(r, ok)
  \/ \E r \in ReqIds : CallbackFinish(r)
  \/ \E c \in Callers : AuthStartResolved(c)
  \/ \E c \in Callers, refreshOk \in BOOLEAN, writeOk \in BOOLEAN :
       AuthReinitialize(c, refreshOk, writeOk)
  \/ \E t \in ToolIds, req \in ServerToolRequests : ToolCall(t, req)
  \/ \E t \in ToolIds, ok \in BOOLEAN :
       ToolReturn(t, ok, <<"quota exceeded">>, FALSE)

SpecServer == InitServer /\ [][NextServer]_vars

\* ------------------------------------------------- one tool call at a time
\* the server after a startup that found a current bundle: the transport is
\* connected, no AuthServer was needed
InitTools ==
  /\ credFile = "installed"
  /\ tokenFile = Bundle(StoredToken, StoredToken, MaxExpiry)
  /\ occupied = {}
  /\ NoAuthServer
  /\ run = "connected"
  /\ authCalls = [c \in Callers |-> "none"]
  /\ isAuthenticated = TRUE
  /\ googleMeet = "initialized"
  /\ tools = [t \in ToolIds |-> NoCall]
  /\ gw = NoGw

\* the first tool call of the client, with every request and every outcome
\* of the Calendar API calls it makes
NextTools ==
  \/ \E req \in ToolRequests : ToolCall(1, req)
  \/ \E ok \in BOOLEAN, message \in ProviderMessages, conflicts \in BOOLEAN :
       ToolReturn(1, ok, message, conflicts)

SpecTools == InitTools /\ [][NextTools]_vars

\* --------------------------------------------- the methods on their own
\* the server after a successful startup, with a checkAvailability or a
\* listMeetings of a handler under way
InitGateway ==
  /\ credFile = "installed"
  /\ tokenFile = Bundle(StoredToken, StoredToken, MaxExpiry)
  /\ occupied = {}
  /\ NoAuthServer
  /\ run = "connected"
  /\ authCalls = [c \in Callers |-> "none"]
  /\ isAuthenticated = TRUE
  /\ googleMeet = "initialized"
  /\ tools = [t \in ToolIds |-> NoCall]
  /\ gw \in { CheckAvailabilityCall(q, cals) :
                q \in Queries, cals \in CalendarLists }
            \cup { ListMeetingsCall(n) : n \in 1..MaxResults }

NextGateway ==
  \/ CheckTimeConflictsReturn(TRUE, <<>>)
  \/ \E message \in ProviderMessages : CheckTimeConflictsReturn(FALSE, message)
  \/ ListMeetingsReturn(TRUE, <<>>)
  \/ \E message \in ProviderMessages : ListMeetingsReturn(FALSE, message)

SpecGateway == InitGateway /\ [][NextGateway]_vars

\* ------------------------------------------------------ stop() on its own
\* an AuthServer whose start() finds no token file or a current
\* bundle, with the ports free
InitStop ==
  /\ ServerOff
  /\ credFile = "installed"
  /\ tokenFile \in {MissingFile, Bundle(StoredToken, StoredToken, MaxExpiry)}
  /\ occupied = {}
  /\ InitProgram

\* start() up to its wait, connections that come and go, and calls of
\* stop() at any moment, each with its close callback and its 2 s timer
NextStop ==
  \/ \E openBrowser \in BOOLEAN, refreshOk \in BOOLEAN, writeOk \in BOOLEAN :
       StartCall(openBrowser, refreshOk, writeOk)
  \/ StartLoadCredentials
  \/ FindAvailablePort(TRUE)
  \/ \E opened \in BOOLEAN : StartOpenBrowser(opened)
  \/ \E s \in Sockets : Connect(s)
  \/ \E s \in Sockets : SocketEnd(s)
  \/ \E s \in Sockets : SocketCloseEvent(s)
  \/ \E k \in StopIds : Stop(k)
  \/ \E k \in StopIds : StopClosed(k)
  \/ \E k \in StopIds : StopGrace(k)

\* a timer that is armed fires while the process runs; nothing is assumed
\* about the close callback
SpecStop ==
  /\ InitStop
  /\ [][NextStop]_vars
  /\ \A k \in StopIds : WF_vars(StopGrace(k))

\* ================================================================ claims
\* a callback with a code had its tokens exchanged and saved and set the
\* success flag before the 300 s timer fired
SuccessfulCallback ==
  \E r \in ReqIds : reqs[r].setFlag /\ reqs[r].wrote /\ reqs[r].early

\* the step in which the 300 s timer fires
TimeoutFires == timeoutTimer = "armed" /\ timeoutTimer' = "fired"

C2_ResolvedWhenTimeoutFired == timeoutTimer = "fired" => result # "none"

\* C3: start never throws or rejects; a credential load failure, an
\* exhausted port range and a bind error other than EADDRINUSE make it
\* return false, a failed browser launch lets the flow go on to the wait,
\* and a timeout that finds the flag unset resolves false.
C3_StartNeverThrows ==
  /\ [](/\ result # "threw"
        /\ (pc = "returned" /\ ~hadValidTokens /\ oAuth2Client = 0)
             => result = "false"
        /\ browser = "failed" => timeoutTimer # "unset")
  /\ [][(pc = "openBrowser" /\ browser' = "failed") => pc' = "waiting"]_vars
  /\ [][(TimeoutFires /\ ~authCompletedSuccessfully /\ pc = "waiting")
          => (pc' = "returned" /\ result' = "false")]_vars

\* start gave up because every port of the range was occupied
C3_Witness ==
  /\ pc = "returned"
  /\ result = "false"
  /\ loadCredentials(credFile).ok
  /\ occupied = Ports
  /\ port = EndPort

\* C4: when a flow that bound a listener has resolved, the poll is stopped,
\* no client connection is open and the listener is closed.
C4_ListenerClosedWhenResolved ==
  (oAuth2Client # 0 /\ result \in {"true", "false"})
    => /\ ~checkInterval
       /\ activeConnections = {}
       /\ ~listening
       /\ server = 0

\* the answer to a callback that carried `error`
IsErrorAnswer(resp) == resp.req.path = "/oauth2callback" /\ resp.req.error

\* the answer to a callback that carried neither `error` nor `code`
IsNoCodeAnswer(resp) ==
  resp.req.path = "/oauth2callback" /\ ~resp.req.error /\ ~resp.req.code

C6_MissingCodeChangesNothing ==
  /\ [](\A r \in ReqIds : reqs[r].pc # "unused" => reqs[r].req.code)
  /\ [](IsNoCodeAnswer(lastResp) => lastResp.status = 400)
  /\ [][(lastResp' # lastResp /\ IsNoCodeAnswer(lastResp'))
          => UNCHANGED <<credFile, tokenFile, occupied, pc, result,
                         hadValidTokens, browser, port, server, listening,
                         oAuth2Client, authCompletedSuccessfully,
                         checkInterval, timeoutTimer, reqs,
                         activeConnections, stopPc>>]_vars

\* a callback with a code that arrived after a 400 for a missing code
\* completed the flow
C6_Witness ==
  /\ result = "true"
  /\ ~hadValidTokens
  /\ \E r \in ReqIds :
       reqs[r].retry /\ reqs[r].setFlag /\ reqs[r].wrote /\ reqs[r].early

\* C7: a callback sets the success flag only after its own tokens were
\* saved, and answers 200 exactly then; a callback whose exchange or save
\* failed does not set the flag and answers 500.
C7_FlagOnlyAfterSave ==
  /\ [](\A r \in ReqIds :
          /\ reqs[r].setFlag => reqs[r].wrote
          /\ reqs[r].status = 200 <=> reqs[r].pc = "done200"
          /\ reqs[r].pc = "done200" => reqs[r].setFlag
          /\ reqs[r].pc = "done500"
               => ~reqs[r].setFlag /\ reqs[r].status = 500)
  /\ [][\A r \in ReqIds :
          /\ (reqs'[r].wrote /\ ~reqs[r].wrote)
               => (reqs[r].pc = "saveTokens" /\ tokenFile' = IssuedBundle(r))
          /\ (reqs'[r].setFlag /\ ~reqs[r].setFlag)
               => (reqs[r].wrote /\ authCompletedSuccessfully')]_vars
  /\ [][(authCompletedSuccessfully' /\ ~authCompletedSuccessfully)
          => \/ pc = "idle" /\ hadValidTokens'
             \/ \E r \in ReqIds : reqs[r].pc = "saved" /\ reqs'[r].setFlag]_vars

\* one callback went through exchange, save, flag and success page, another
\* one failed and got the 500 page
C7_Witness ==
  \E r, q \in ReqIds :
    /\ reqs[r].pc = "done200" /\ reqs[r].wrote /\ reqs[r].setFlag
    /\ reqs[q].pc = "done500" /\ reqs[q].status = 500

\* C8: the scan probes the ports in ascending order and binds the lowest
\* port that is not occupied; with the whole range occupied start fails,
\* this.server stays null and nothing listens.
C8_LowestFreePort ==
  /\ pc = "findAvailablePort"
       => \A q \in Ports : q < port => q \in occupied
  /\ server # 0
       => /\ server \in Ports \ occupied
          /\ \A q \in Ports : q < server => q \in occupied
  /\ listening => server # 0
  /\ occupied = Ports => server = 0 /\ ~listening
  /\ (occupied = Ports /\ pc = "returned" /\ ~hadValidTokens)
       => result = "false"

\* ports 3000..3002 occupied, 3003 free: the listener is on 3003
C8_Witness ==
  /\ occupied = StartPort..(StartPort + 2)
  /\ server = StartPort + 3
  /\ listening

\* C9 as stated: with a credentials file that has neither key no listener
\* is started and start does not report success, whatever the token file.
C9_NoListenerNoSuccess ==
  credFile = "neither" => server = 0 /\ ~listening /\ result # "true"

\* C9 amended: with a credentials file that has neither key no listener is
\* started, and start returns false unless the token file already held a
\* bundle with both tokens that is not expired, in which case it returns
\* true without loading the credentials.
C9_NoListenerSuccessOnlyFromStoredTokens ==
  credFile = "neither"
    => /\ server = 0 /\ ~listening /\ oAuth2Client = 0
       /\ pc \in {"none", "idle", "loadCredentials", "returned"}
       /\ (pc = "returned" /\ ~hadValidTokens) => result = "false"
       /\ result = "true" => hadValidTokens
       /\ hadValidTokens
            => /\ tokenFile.state = "ok"
               /\ Truthy(tokenFile.access_token)
               /\ Truthy(tokenFile.refresh_token)
               /\ tokenFile.access_token # RefreshedToken
               /\ ~IsExpired(tokenFile)

\* neither key, an expired bundle: the refresh cannot load the credentials,
\* start fails
C9_Witness ==
  /\ credFile = "neither"
  /\ tokenFile.state = "ok"
  /\ IsExpired(tokenFile)
  /\ pc = "returned"
  /\ result = "false"

\* the validity rule of the token store: both tokens present and
\* (expiry_date absent, or not before the current time, or a refresh just
\* succeeded)
IsValid(bundle, refreshed) ==
  /\ bundle.state = "ok"
  /\ bundle.access_token # Absent
  /\ bundle.refresh_token # Absent
  /\ \/ bundle.expiry_date = Absent
     \/ bundle.expiry_date >= Now
     \/ refreshed

\* C10: hasValidTokens answers true exactly for the token files the
\* validity rule accepts (a refresh that succeeded is one that rewrote the
\* token file).
C10_ValidIffRule ==
  [][(pc = "idle" /\ pc' # "idle")
      => (hadValidTokens' <=> IsValid(tokenFile, tokenFile' # tokenFile))]_vars

\* the stored bundle carries an expiry date that lies in the past
PastExpiry(file) ==
  file.state = "ok" /\ file.expiry_date # Absent /\ file.expiry_date < Now

\* start() got the answer of hasValidTokens
HasValidTokensAnswers == pc = "idle" /\ pc' # "idle"

\* the caller c got the answer of one of the two calls of initialize()
InitializeAnswers(c) ==
  /\ authCalls[c] \in {"initialize", "reinitialize"}
  /\ authCalls'[c] # authCalls[c]

\* initialize() of caller c returned without throwing
InitializeSucceeded(c) ==
  IF authCalls[c] = "initialize" THEN authCalls'[c] = "none"
                                 ELSE isAuthenticated'

\* the token file after a refresh path ran on a bundle with a past expiry
\* date: unchanged, and then an expired bundle was not accepted, or the
\* updated bundle with an expiry date in the future, and then accepted
RefreshOutcome(accepted) ==
  \/ /\ tokenFile' = tokenFile
     /\ IsExpired(tokenFile) => ~accepted
  \/ /\ tokenFile' # tokenFile
     /\ tokenFile'.state = "ok"
     /\ tokenFile'.access_token = RefreshedToken
     /\ tokenFile'.expiry_date > Now
     /\ IsExpired(tokenFile)
     /\ accepted

\* C11: for a stored bundle whose expiry date is in the past, both refresh
\* paths (hasValidTokens of the AuthServer, initialize of the GoogleMeetAPI)
\* end in one of two ways: the refresh succeeded and the token file holds
\* the updated bundle with an expiry date in the future, or it did not and
\* the token file is unchanged
C11_RefreshPersistsOrLeavesFile ==
  [][ /\ (PastExpiry(tokenFile) /\ HasValidTokensAnswers)
         => RefreshOutcome(hadValidTokens')
      /\ \A c \in Callers :
           (PastExpiry(tokenFile) /\ InitializeAnswers(c))
              => RefreshOutcome(InitializeSucceeded(c)) ]_vars

\* initialize() failed to refresh and left the file alone, then
\* hasValidTokens refreshed it, and the second initialize() took the
\* persisted bundle
C11_Witness ==
  /\ authServers = 1
  /\ hadValidTokens
  /\ tokenFile.state = "ok"
  /\ tokenFile.access_token = RefreshedToken
  /\ tokenFile.expiry_date > Now
  /\ isAuthenticated

\* the stored bundle is usable as it stands: both tokens, not expired
StoredValid(file) ==
  /\ file.state = "ok"
  /\ file.access_token # Absent
  /\ file.refresh_token # Absent
  /\ ~PastExpiry(file)

\* C12: when valid stored tokens exist at the time start is called, start
\* returns true at once, and from then on no listener is bound and no
\* browser is opened; the token file is written only when the stored bundle
\* was expired and had to be refreshed
C12_ValidTokensShortCircuit ==
  [][ /\ (HasValidTokensAnswers /\ StoredValid(tokenFile))
         => hadValidTokens' /\ tokenFile' = tokenFile
      /\ (HasValidTokensAnswers /\ hadValidTokens')
         => /\ result' = "true"
            /\ pc' = "returned"
            /\ tokenFile' # tokenFile => IsExpired(tokenFile)
      /\ hadValidTokens'
         => /\ server' = 0
            /\ ~listening'
            /\ oAuth2Client' = 0
            /\ browser' \in {"requested", "notRequested"}
            /\ timeoutTimer' = "unset"
            /\ tokenFile' # tokenFile => HasValidTokensAnswers ]_vars

\* start(true) answered true from the stored bundle, nothing was bound,
\* opened or written
C12_Witness ==
  /\ pc = "returned"
  /\ result = "true"
  /\ hadValidTokens
  /\ browser = "requested"
  /\ server = 0
  /\ tokenFile = Bundle(StoredToken, StoredToken, MaxExpiry)

\* C13: a GoogleMeetAPI method is invoked for a tool call only while
\* isAuthenticated is set and the calendar client is initialized; a tool
\* call that waits in ensureAuthenticated, or that ensureAuthenticated
\* failed with InvalidRequest, has reached no method and no Calendar API
\* call; and the transport is connected, so that tool calls arrive, only
\* after the authentication at startup succeeded
C13_DispatchOnlyWhenAuthenticated ==
  /\ \A t \in ToolIds :
       /\ tools[t].invoked
            => tools[t].auth /\ tools[t].client = "initialized"
       /\ tools[t].calls # <<>> => tools[t].invoked
       /\ tools[t].pc = "ensure"
            => ~tools[t].invoked /\ authCalls[t] # "none"
       /\ tools[t].out.code = "InvalidRequest" => ~tools[t].invoked
  /\ Connected => isAuthenticated /\ googleMeet = "initialized"

\* the authorization flow ran at startup, and afterwards a tool call
\* reached the Calendar API
C13_Witness ==
  \E t \in ToolIds :
    /\ tools[t].pc = "provider"
    /\ tools[t].calls = <<"list">>
    /\ authServers = 1
    /\ ~hadValidTokens
    /\ result = "true"

\* the callers of initializeAuthentication that wait for start() of the
\* AuthServer they constructed
FlowsInFlight == { c \in Callers : authCalls[c] = "start" }

ProviderFailed(t) ==
  /\ tools[t].pc = "done"
  /\ tools[t].out.type # "result"
  /\ tools[t].calls # <<>>

\* C15: when a Calendar API call made for a tool fails with a message that
\* mentions credentials or token, the error the caller gets carries that
\* message and the hint block that belongs to the word
C15_ProviderErrorsCarryHint ==
  \A t \in ToolIds :
    ProviderFailed(t) =>
      LET message == tools[t].out.message
      IN  /\ Includes(message, "credentials")
               => Includes(message, Hint("credentials"))
          /\ (Includes(message, "token") /\ ~Includes(message, "credentials"))
               => Includes(message, Hint("token"))

\* a parameter the handler of the tool requires is not among the arguments
MissingRequired(name, args) ==
  \E k \in Required(name) : args = Undefined \/ ~Has(args, k)

\* C16: every failure that leaves handleCallTool is an McpError: an unknown
\* tool gives MethodNotFound, a missing required parameter gives
\* InvalidParams with no GoogleMeetAPI method called, anything else thrown
\* is converted
C16_EveryFailureIsMcpError ==
  \A t \in ToolIds :
    (tools[t].pc = "done" /\ tools[t].out.type # "result") =>
      /\ tools[t].out.type = "McpError"
      /\ tools[t].out.message # <<>>
      /\ tools[t].name \notin ToolNames
           => tools[t].out.code = "MethodNotFound"
      /\ (tools[t].name \in ToolNames
          /\ MissingRequired(tools[t].name, tools[t].args))
           => /\ tools[t].out.code = "InvalidParams"
              /\ ~tools[t].invoked
              /\ tools[t].calls = <<>>

\* C17: the event updateMeeting writes back equals the event it fetched
\* except for exactly the supplied fields among summary, description,
\* startTime, endTime and attendees
C17_PartialUpdate ==
  \A t \in ToolIds :
    tools[t].written # <<>> =>
      LET w == tools[t].written[1]
          f == updateFields(tools[t].args)
          e == ExistingEvent
      IN  /\ w.summary = IF Has(f, "summary") THEN f["summary"] ELSE e.summary
          /\ w.description =
               IF Has(f, "description") THEN f["description"]
                                        ELSE e.description
          /\ IF Has(f, "startTime")
               THEN w.start.dateTime = f["startTime"]
               ELSE w.start = e.start
          /\ IF Has(f, "endTime")
               THEN w.end.dateTime = f["endTime"]
               ELSE w.end = e.end
          /\ IF Has(f, "attendees")
               THEN w.attendees.emails = f["attendees"]
               ELSE w.attendees = e.attendees
          /\ w.conferenceData = e.conferenceData

\* updateMeeting got a summary and an end time: these two are written, the
\* description, the start and the attendees are the fetched ones
C17_Witness ==
  \E t \in ToolIds :
    /\ tools[t].calls = <<"get", "update">>
    /\ DOMAIN updateFields(tools[t].args) = {"summary", "endTime"}
    /\ tools[t].written[1].summary = 1
    /\ tools[t].written[1].end.dateTime = 1
    /\ tools[t].written[1].start = ExistingEvent.start
    /\ tools[t].written[1].description = ExistingEvent.description
    /\ tools[t].written[1].attendees = ExistingEvent.attendees

\* C18: every optional field the update_meeting tool declares is applied
\* when provided: the event written has the start and the end of the
\* call's start_time and end_time, and likewise its summary, description
\* and attendees
C18_DeclaredFieldsApplied ==
  \A t \in ToolIds :
    (tools[t].name = "update_meeting" /\ tools[t].written # <<>>) =>
      LET w == tools[t].written[1]
          a == tools[t].args
      IN  /\ Has(a, "start_time") => w.start.dateTime = a["start_time"]
          /\ Has(a, "end_time") => w.end.dateTime = a["end_time"]
          /\ Has(a, "summary") => w.summary = a["summary"]
          /\ Has(a, "description") => w.description = a["description"]
          /\ Has(a, "attendees") => w.attendees.emails = a["attendees"]

\* the listed event overlaps the time range asked about: it starts before
\* the range ends and ends after the range starts
ListedOverlaps(l) ==
  l.event.start < gw.query.end /\ gw.query.start < l.event.end

\* C19: checkTimeConflicts returns, over all the calendars asked about and
\* in the order listed, exactly the listed events that start before the
\* range ends and end after it starts (a touching boundary is no
\* conflict), and checkAvailability answers available exactly when that
\* list is empty
C19_ConflictsAreOverlaps ==
  gw.op = "checkAvailability" =>
    LET hits == SelectSeq(gw.listed, ListedOverlaps)
    IN  /\ Len(gw.conflicts) = Len(hits)
        /\ \A i \in 1..Len(hits) :
             /\ gw.conflicts[i].start_time = hits[i].event.start
             /\ gw.conflicts[i].end_time = hits[i].event.end
             /\ gw.conflicts[i].calendar = hits[i].calendar
        /\ gw.out = Result => (gw.available <=> gw.conflicts = <<>>)
        /\ gw.out = Result => gw.i = Len(gw.calendars) + 1

\* the range 1..3 against an event 0..2 on one calendar and an event 3..4
\* on the other: one conflict, the first event, and not available
C19_Witness ==
  /\ gw.op = "checkAvailability"
  /\ gw.out = Result
  /\ gw.query = [start |-> 1, end |-> 3]
  /\ gw.listed = << [calendar |-> "primary", event |-> Event(0, 2, FALSE)],
                    [calendar |-> "work", event |-> Event(3, 4, FALSE)] >>
  /\ gw.conflicts = << [start_time |-> 0, end_time |-> 2,
                        calendar |-> "primary"] >>
  /\ ~gw.available

\* the listed event carries conference data
ListedWithConference(event) == event.conferenceData

\* C20: listMeetings returns exactly the listed events that carry
\* conference data, in the provider's order, so at most maxResults of them
\* and none without conference data; a failure of the provider is thrown
\* on as one error that wraps the provider's message
C20_MeetingsAreConferenceEvents ==
  (gw.op = "listMeetings" /\ gw.pc = "done") =>
    IF gw.out = Result
      THEN LET kept == SelectSeq(gw.listed, ListedWithConference)
           IN  /\ Len(gw.meetings) = Len(kept)
               /\ \A i \in 1..Len(kept) : gw.meetings[i].id = kept[i].start
               /\ Len(gw.meetings) <= gw.maxResults
      ELSE /\ gw.out.type = "Error"
           /\ gw.meetings = <<>>
           /\ \E message \in ProviderMessages :
                gw.out.message = <<"list meetings: ">> \o message

\* the provider listed an event without conference data and then one with
\* it: the second alone is returned
C20_Witness ==
  /\ gw.op = "listMeetings"
  /\ gw.out = Result
  /\ gw.listed = << Event(1, 1, FALSE), Event(0, 0, TRUE) >>
  /\ gw.meetings = << formatMeetingData(Event(0, 0, TRUE)) >>

\* ----------------------------------------------------------------- C21
\* `check_conflicts = true` in the destructuring of handleCreateMeeting: the
\* check is asked for unless the client sent a falsy value
CheckRequested(args) ==
  ~Has(args, "check_conflicts") \/ Truthy(args["check_conflicts"])

\* C21: create_meeting checks conflicts and warns rather than blocks. When
\* the check is asked for (check_conflicts truthy or left out)
\* checkTimeConflicts is the first call and createMeeting the second; a
\* conflict list that is not empty sets the warning and createMeeting is
\* still called; when check_conflicts is false createMeeting is the only
\* call; when the conflict check throws the handler ends with an McpError
\* and createMeeting is never called.
C21_ConflictCheckWarnsNeverBlocks ==
  \A t \in ToolIds :
    LET c == tools[t]
    IN  c.name = "create_meeting" /\ c.calls # <<>> =>
          /\ c.calls \in {<<"list">>, <<"list", "insert">>, <<"insert">>}
          /\ CheckRequested(c.args) <=> c.calls[1] = "list"
          /\ c.calls = <<"list", "insert">> =>
                /\ c.answers[1] \in {"ok", "conflicts"}
                /\ c.warned <=> c.answers[1] = "conflicts"
          /\ c.calls = <<"list">> /\ c.answers # <<>> =>
                /\ c.answers = <<"failed">>
                /\ c.pc = "done"
                /\ c.out.type = "McpError"
                /\ ~c.warned
          /\ c.calls = <<"insert">> => ~c.warned
          /\ c.pc = "done" /\ c.out = Result =>
                c.calls[Len(c.calls)] = "insert"

\* a create_meeting whose conflict check found a conflict and whose meeting
\* was created all the same, the warning in the result
C21_Witness ==
  \E t \in ToolIds :
    /\ tools[t].name = "create_meeting"
    /\ tools[t].calls = <<"list", "insert">>
    /\ tools[t].answers = <<"conflicts", "ok">>
    /\ tools[t].warned
    /\ tools[t].pc = "done"
    /\ tools[t].out = Result

\* ----------------------------------------------------------------- C22
\* the test of hasValidTokens on the two token fields
BothTokensPresent(file) ==
  /\ file.state = "ok"
  /\ Truthy(file.access_token)
  /\ Truthy(file.refresh_token)

\* C22: a stored bundle that lacks access_token or refresh_token is never
\* treated as usable: the server is authenticated only over a token file
\* that holds both fields, and it goes without an AuthServer, or start()
\* goes without the browser flow, only over such a file.
C22_IncompleteBundleNeverUsable ==
  /\ isAuthenticated => BothTokensPresent(tokenFile)
  /\ hadValidTokens => BothTokensPresent(tokenFile)

\* ----------------------------------------------------------------- C23
\* call k of stop() is made in this step
StopCalled(k) == stops[k] = "none" /\ stops'[k] # "none"

\* call k of stop() went through the close of a listener and has resolved
StopClosedListener(k) == stops[k] \in {"closed", "abandoned"}

\* C23: stop always resolves. A call made without a listener resolves in
\* the same step and changes nothing; a call made with a listener resolves
\* when the close callback runs or when the 2 s timer fires, and the timer
\* alone is enough; when a call resolves the server handle is null, it
\* stays null once a call that closed the listener has resolved, and every
\* call made after that resolves at once and changes nothing.
C23_StopAlwaysResolves ==
  /\ \A k \in StopIds : stops[k] = "closing" ~> StopResolved(k)
  /\ [][\A k \in StopIds :
          /\ StopCalled(k) /\ server = 0 =>
                /\ stops'[k] = "noListener"
                /\ UNCHANGED <<credFile, tokenFile, occupied, flowVars,
                               sockets, stopPc, serverSide>>
          /\ StopCalled(k) /\ server # 0 => stops'[k] = "closing"
          /\ StopCalled(k) /\ (\E j \in StopIds : StopClosedListener(j)) =>
                server = 0
          /\ ~StopResolved(k) /\ StopResolved(k)' => server' = 0
          /\ StopClosedListener(k) => server' = 0]_vars

\* the close callback never ran: the first call was resolved by its timer,
\* and a call made after that resolved at once
C23_Witness ==
  /\ stops[1] = "abandoned"
  /\ stops[2] = "noListener"
  /\ server = 0

\* ----------------------------------------------------------------- C24
\* C24: connection tracking. At every moment activeConnections holds every
\* socket that is open on the listener: a socket is added in the step it
\* is accepted and leaves the set only with its 'close' event or in stop;
\* a call of stop that finds a listener leaves the set empty and no socket
\* open at the moment it has asked the listener to close.
C24_OpenSocketsTracked ==
  /\ [](\A s \in Sockets : sockets[s] = "open" => s \in activeConnections)
  /\ [][\A s \in Sockets :
          /\ sockets[s] = "free" /\ sockets'[s] = "open" =>
                s \in activeConnections'
          /\ s \in activeConnections /\ s \notin activeConnections' =>
                \/ sockets[s] \in {"closed", "destroyed"}
                     /\ sockets'[s] = "free"
                \/ \E k \in StopIds : StopCalled(k)]_vars
  /\ [][\A k \in StopIds :
          StopCalled(k) /\ server # 0 =>
            /\ activeConnections' = {}
            /\ \A s \in Sockets : sockets'[s] # "open"
            /\ \A s \in activeConnections :
                  sockets[s] = "open" => sockets'[s] = "destroyed"]_vars

\* stop found a tracked open socket, destroyed it and emptied the set; the
\* listener is closing
C24_Witness ==
  /\ \E k \in StopIds : stops[k] = "closing"
  /\ \E s \in Sockets : sockets[s] = "destroyed"
  /\ activeConnections = {}
  /\ server # 0

\* ----------------------------------------------------------------- C25
\* a callback of this flow saved its tokens and set the success flag
PersistedByCallback == \E r \in ReqIds : reqs[r].wrote /\ reqs[r].setFlag

\* C25: within one flow the success signal is monotonic. While start()
\* waits and the flag is set by a callback that persisted its tokens, no
\* step of another callback resets the flag; the poll therefore finds it
\* set on its next tick.
C25_SuccessSignalMonotonic ==
  [][pc = "waiting" /\ authCompletedSuccessfully /\ PersistedByCallback
       => authCompletedSuccessfully']_vars

\* ----------------------------------------------------------------- C26
\* start() resolved false through the 300 s timer
ResolvedFalseByTimeout == result = "false" /\ timeoutTimer = "fired"

\* C26: the authorization session ends when the flow resolves. After
\* start has resolved false because of the timeout no callback exchanges a
\* code, writes the token file or sets the success flag.
C26_NoCallbackAfterTimeout ==
  [][ResolvedFalseByTimeout =>
       /\ tokenFile' = tokenFile
       /\ authCompletedSuccessfully' = authCompletedSuccessfully
       /\ \A r \in ReqIds :
             reqs[r].pc = "getToken" => reqs'[r].pc # "saveTokens"]_vars

TypeOK ==
  /\ credFile \in CredFiles
  /\ pc \in {"none", "idle", "loadCredentials", "findAvailablePort",
             "openBrowser", "waiting", "returned"}
  /\ result \in {"none", "true", "false", "threw"}
  /\ server \in {0} \cup Ports
  /\ timeoutTimer \in {"unset", "armed", "fired"}
  /\ stopPc \in {"none", "closing", "exited"}
  /\ run \in {"off", "auth", "connected", "exited"}
  /\ authCalls \in [Callers -> {"none", "initialize", "start", "reinitialize"}]
  /\ isAuthenticated \in BOOLEAN
  /\ googleMeet \in {"null", "created", "initialized"}
  /\ authServers \in 0..(1 + MaxCalls)
  /\ \A t \in ToolIds : tools[t].pc \in {"none", "ensure", "provider", "done"}
  /\ sockets \in [Sockets -> {"free", "open", "closed", "destroyed"}]
  /\ stops \in [StopIds -> {"none", "noListener", "closing", "abandoned", "closed"}]

====
